---- MODULE Spec2Model ----
(***************************************************************************)
(* Comparar Energia (src/App.tsx): the state of the App component, its     *)
(* event handlers, and the tariff cost / VAT calculation derived from the  *)
(* state on every render.                                                  *)
(*                                                                         *)
(* Numbers.  The program computes with JavaScript numbers; the model uses  *)
(* exact decimal fixed point:                                              *)
(*   - energy              whole kWh                                       *)
(*   - contracted power    hundredths of a kVA   (6.9 kVA = 690)           *)
(*   - billing period      whole days                                      *)
(*   - every money amount  1/10000 EUR           (0.15 EUR = 1500)         *)
(*   - a VAT rate          hundredths            (0.06 = 6, 0.23 = 23)     *)
(* Every money input is a whole number of cents, so amount * rate is a     *)
(* whole number of 1/10000 EUR and Rate() below is exact.  The binary      *)
(* rounding of IEEE-754 doubles is not modelled.                           *)
(* The only non-finite numbers the calculation can produce from finite     *)
(* inputs come from the division 365 / billingPeriodDays; they are         *)
(* modelled by JsNumber records (finite ratio, +-Infinity, NaN).           *)
(***************************************************************************)
EXTENDS Integers, Sequences, FiniteSets, TLC

\* The useState cells of App (src/App.tsx 29-41):
\*   status            AnalysisStatus
\*   errorMsg          string | null
\*   billData          BillData
\*   newOffer          NewOfferData
\*   multiSimulations  SavedSimulation[]
\* and the asynchronous work in flight:
\*   extractions       the calls of handleFileSelect awaiting extractBillData
\*                     (src/App.tsx 93); each carries the note "abandoned",
\*                     set when the user resets or clears while it is in flight
\*   batches           the calls of handleAddMultiSimulations whose FileReaders
\*                     have not all called back (src/App.tsx 110-138): the
\*                     files, the files processed so far, the files whose
\*                     read failed, and newSims
\* and, outside the component,
\*   download          the file that the last click on the save button made
\*                     the browser download (src/App.tsx 406-418)
VARIABLES status, errorMsg, billData, newOffer, multiSimulations,
          extractions, batches, download

vars == <<status, errorMsg, billData, newOffer, multiSimulations,
          extractions, batches, download>>

----------------------------------------------------------------------------
(* Program constants *)

RateScale == 100
IVA_LOW == 6
IVA_NORMAL == 23
PowerThreshold == 690
tier1Cap == 100
DaysPerYear == 365
DefaultBillingDays == 30

(* Bounds of the model *)

\* consumption values reach MaxTiers * tier1Cap kWh
MaxTiers == 2

----------------------------------------------------------------------------
(* Values *)

\* AnalysisStatus
IDLE == "IDLE"
ANALYZING == "ANALYZING"
SUCCESS == "SUCCESS"
ERROR == "ERROR"

\* errorMsg: string | null
NoError == "null"

\* ComparisonResult | null
Null == [isNull |-> TRUE]

getInitialBillData ==
  [ monthlyConsumptionKwh |-> 0,
    contractedPowerKva |-> 0,
    audiovisualTax |-> 0,
    dgegTax |-> 0,
    ieceTax |-> 0,
    socialTariff |-> 0,
    totalAmount |-> 0,
    billingPeriodDays |-> DefaultBillingDays,
    currentPowerPricePerDay |-> 0,
    currentEnergyPricePerKwh |-> 0 ]

getInitialOfferData ==
  [ supplierName |-> "",
    powerPricePerDay |-> 0,
    energyPricePerKwh |-> 0 ]

----------------------------------------------------------------------------
(* JavaScript arithmetic helpers *)

Min(a, b) == IF a <= b THEN a ELSE b
Max(a, b) == IF a >= b THEN a ELSE b

\* amount * rate, the rate in hundredths
Rate(amount, rate) == (amount * rate) \div RateScale

\* a || 0 on a number: 0 and NaN are falsy
OrZero(x) == IF x.nan \/ x.n = 0 THEN 0 ELSE x.n

\* parseFloat of the text of a number input: the number it shows, or NaN
parseFloat(text) ==
  IF text.numeric THEN [nan |-> FALSE, n |-> text.n] ELSE [nan |-> TRUE, n |-> 0]

\* JS numbers that may be non-finite: num/den with den > 0 when finite;
\* Infinity carries its sign in num.
Finite(num, den) ==
  IF den > 0 THEN [k |-> "finite", num |-> num, den |-> den]
             ELSE [k |-> "finite", num |-> 0 - num, den |-> 0 - den]
Infinity(sign) == [k |-> "Infinity", num |-> sign, den |-> 0]
NaN == [k |-> "NaN", num |-> 0, den |-> 0]

\* a / b for finite a # 0 (a > 0 here: 365)
JsDivide(a, b) == IF b = 0 THEN Infinity(1) ELSE Finite(a, b)

\* x * q for a finite number x
JsTimes(x, q) ==
  CASE q.k = "finite" -> Finite(x * q.num, q.den)
    [] q.k = "Infinity" -> IF x = 0 THEN NaN
                           ELSE IF x > 0 THEN Infinity(q.num) ELSE Infinity(0 - q.num)
    [] OTHER -> NaN

----------------------------------------------------------------------------
(* VAT calculation logic *)

\* mutant: the boundary 6.9 kVA itself falls in the standard bracket
powerVatRate_StrictBelow(powerKva) ==
  IF powerKva < PowerThreshold THEN IVA_LOW ELSE IVA_NORMAL

\* Power <= 6.9 kVA gets 6% VAT, else 23%
powerVatRate(powerKva) ==
  IF powerKva <= PowerThreshold THEN IVA_LOW ELSE IVA_NORMAL

\* mutant: the second tier is not clamped at 0
energyVat_Tier2Unclamped(consumption, powerKva, energyPrice) ==
  IF powerKva <= PowerThreshold
    THEN Rate(Min(consumption, tier1Cap) * energyPrice, IVA_LOW)
           + Rate((consumption - tier1Cap) * energyPrice, IVA_NORMAL)
    ELSE Rate(consumption * energyPrice, IVA_NORMAL)

\* mutant: the second tier counts the whole consumption again
energyVat_Tier2Whole(consumption, powerKva, energyPrice) ==
  IF powerKva <= PowerThreshold
    THEN Rate(Min(consumption, tier1Cap) * energyPrice, IVA_LOW)
           + (IF consumption > tier1Cap
                THEN Rate(consumption * energyPrice, IVA_NORMAL) ELSE 0)
    ELSE Rate(consumption * energyPrice, IVA_NORMAL)

\* mutant: the low bracket taxes the whole energy cost at the low rate
energyVat_AllLow(consumption, powerKva, energyPrice) ==
  IF powerKva <= PowerThreshold
    THEN Rate(consumption * energyPrice, IVA_LOW)
    ELSE Rate(consumption * energyPrice, IVA_NORMAL)

\* mutant: the tier split is applied whatever the contracted power
energyVat_AlwaysTiered(consumption, powerKva, energyPrice) ==
  Rate(Min(consumption, tier1Cap) * energyPrice, IVA_LOW)
    + Rate(Max(0, consumption - tier1Cap) * energyPrice, IVA_NORMAL)

\* If Power <= 6.9: first 100 kWh at 6%, rest at 23%.  Else 23%.
energyVat(consumption, powerKva, energyPrice) ==
  LET energyBaseCost == consumption * energyPrice
  IN IF powerKva <= PowerThreshold
       THEN LET tier1Kwh == Min(consumption, tier1Cap)
                tier2Kwh == Max(0, consumption - tier1Cap)
                tier1Cost == tier1Kwh * energyPrice
                tier2Cost == tier2Kwh * energyPrice
            IN Rate(tier1Cost, IVA_LOW) + Rate(tier2Cost, IVA_NORMAL)
       ELSE Rate(energyBaseCost, IVA_NORMAL)

\* mutant: DGEG taxed at the low rate, like CAV
taxesVat_DgegLow(taxes) ==
  Rate(taxes.cav, IVA_LOW) + Rate(taxes.dgeg, IVA_LOW) + Rate(taxes.iec, IVA_NORMAL)

\* mutant: the social tariff is taxed at the standard rate
taxesVat_SocialTaxed(taxes) ==
  Rate(taxes.cav, IVA_LOW) + Rate(taxes.dgeg, IVA_NORMAL)
    + Rate(taxes.iec, IVA_NORMAL) + Rate(taxes.social, IVA_NORMAL)

\* CAV is 6%, DGEG/IEC are 23%, the social tariff carries no VAT
taxesVat(taxes) ==
  LET cavVat == Rate(taxes.cav, IVA_LOW)
      dgegVat == Rate(taxes.dgeg, IVA_NORMAL)
      iecVat == Rate(taxes.iec, IVA_NORMAL)
      socialVat == 0
  IN cavVat + dgegVat + iecVat + socialVat

\* mutant: a category total that leaves its VAT out
component_TotalWithoutVat(base, vat) == [base |-> base, vat |-> vat, total |-> base]

\* one entry of the returned components: { base, vat, total: base + vat }
component(base, vat) == [base |-> base, vat |-> vat, total |-> base + vat]

\* mutant: the taxes breakdown leaves the social tariff out of its base
calculateWithVat_SocialOutsideTaxes(consumption, powerKva, days, powerPrice, energyPrice, taxes) ==
  LET powerBaseCost == days * powerPrice
      powerVat == Rate(powerBaseCost, powerVatRate(powerKva))
      energyBaseCost == consumption * energyPrice
      energyVatAmount == energyVat(consumption, powerKva, energyPrice)
      taxesBase == taxes.cav + taxes.dgeg + taxes.iec
      totalBase == powerBaseCost + energyBaseCost
                     + taxes.cav + taxes.dgeg + taxes.iec + taxes.social
      totalVat == powerVat + energyVatAmount + taxesVat(taxes)
      totalWithVat == totalBase + totalVat
  IN [ base |-> totalBase,
       vat |-> totalVat,
       total |-> totalWithVat,
       components |->
         [ energy |-> component(energyBaseCost, energyVatAmount),
           power |-> component(powerBaseCost, powerVat),
           taxes |-> component(taxesBase, taxesVat(taxes)) ] ]

calculateWithVat(consumption, powerKva, days, powerPrice, energyPrice, taxes) ==
  LET powerBaseCost == days * powerPrice
      powerVat == Rate(powerBaseCost, powerVatRate(powerKva))
      energyBaseCost == consumption * energyPrice
      energyVatAmount == energyVat(consumption, powerKva, energyPrice)
      taxesBase == taxes.cav + taxes.dgeg + taxes.iec + taxes.social
      totalBase == powerBaseCost + energyBaseCost
                     + taxes.cav + taxes.dgeg + taxes.iec + taxes.social
      totalVat == powerVat + energyVatAmount + taxesVat(taxes)
      totalWithVat == totalBase + totalVat
  IN [ base |-> totalBase,
       vat |-> totalVat,
       total |-> totalWithVat,
       components |->
         [ energy |-> component(energyBaseCost, energyVatAmount),
           power |-> component(powerBaseCost, powerVat),
           taxes |-> component(taxesBase, taxesVat(taxes)) ] ]

\* the taxes argument built from a bill
billTaxes(bill) ==
  [ cav |-> bill.audiovisualTax,
    dgeg |-> bill.dgegTax,
    iec |-> bill.ieceTax,
    social |-> bill.socialTariff ]

\* the current bill's total, from the bill's own unit prices
currentCalculatedOf(bill) ==
  calculateWithVat(bill.monthlyConsumptionKwh,
                   bill.contractedPowerKva,
                   bill.billingPeriodDays,
                   bill.currentPowerPricePerDay,
                   bill.currentEnergyPricePerKwh,
                   billTaxes(bill))

\* mutant: the offer is costed without the bill's taxes
newOfferCalcOf_NoTaxes(bill, offer) ==
  calculateWithVat(bill.monthlyConsumptionKwh,
                   bill.contractedPowerKva,
                   bill.billingPeriodDays,
                   offer.powerPricePerDay,
                   offer.energyPricePerKwh,
                   [cav |-> 0, dgeg |-> 0, iec |-> 0, social |-> 0])

\* the offer's total on the bill's consumption, power, days and taxes
newOfferCalcOf(bill, offer) ==
  calculateWithVat(bill.monthlyConsumptionKwh,
                   bill.contractedPowerKva,
                   bill.billingPeriodDays,
                   offer.powerPricePerDay,
                   offer.energyPricePerKwh,
                   billTaxes(bill))

\* mutant: the guard also refuses a bill of 0 billing days
comparisonOf_GuardsDays(bill, offer) ==
  IF bill.monthlyConsumptionKwh = 0 \/ bill.billingPeriodDays = 0 THEN Null
  ELSE [ isNull |-> FALSE,
         currentTotal |-> currentCalculatedOf(bill).total,
         newTotal |-> newOfferCalcOf(bill, offer).total,
         currentBase |-> currentCalculatedOf(bill).base,
         newBase |-> newOfferCalcOf(bill, offer).base,
         difference |->
           currentCalculatedOf(bill).total - newOfferCalcOf(bill, offer).total,
         isCheaper |->
           newOfferCalcOf(bill, offer).total < currentCalculatedOf(bill).total,
         yearlySavings |->
           JsTimes(currentCalculatedOf(bill).total - newOfferCalcOf(bill, offer).total,
                   JsDivide(DaysPerYear, bill.billingPeriodDays)) ]

\* mutant: an offer of the same total counts as cheaper
comparisonOf_CheaperOrEqual(bill, offer) ==
  IF bill.monthlyConsumptionKwh = 0 THEN Null
  ELSE [ isNull |-> FALSE,
         currentTotal |-> currentCalculatedOf(bill).total,
         newTotal |-> newOfferCalcOf(bill, offer).total,
         currentBase |-> currentCalculatedOf(bill).base,
         newBase |-> newOfferCalcOf(bill, offer).base,
         difference |->
           currentCalculatedOf(bill).total - newOfferCalcOf(bill, offer).total,
         isCheaper |->
           newOfferCalcOf(bill, offer).total <= currentCalculatedOf(bill).total,
         yearlySavings |->
           JsTimes(currentCalculatedOf(bill).total - newOfferCalcOf(bill, offer).total,
                   JsDivide(DaysPerYear, bill.billingPeriodDays)) ]

comparisonOf(bill, offer) ==
  IF bill.monthlyConsumptionKwh = 0 THEN Null
  ELSE LET current == currentCalculatedOf(bill)
           newOfferCalc == newOfferCalcOf(bill, offer)
           difference == current.total - newOfferCalc.total
       IN [ isNull |-> FALSE,
            currentTotal |-> current.total,
            newTotal |-> newOfferCalc.total,
            currentBase |-> current.base,
            newBase |-> newOfferCalc.base,
            difference |-> difference,
            isCheaper |-> newOfferCalc.total < current.total,
            yearlySavings |->
              JsTimes(difference, JsDivide(DaysPerYear, bill.billingPeriodDays)),
            details |->
              [ energyCost |-> [current |-> current.components.energy.total,
                                new |-> newOfferCalc.components.energy.total],
                powerCost |-> [current |-> current.components.power.total,
                               new |-> newOfferCalc.components.power.total],
                taxes |-> [current |-> current.components.taxes.total,
                           new |-> newOfferCalc.components.taxes.total] ] ]

\* the values the component renders from its state (useMemo)
currentCalculated == currentCalculatedOf(billData)
newOfferCalc == newOfferCalcOf(billData, newOffer)
comparison == comparisonOf(billData, newOffer)

----------------------------------------------------------------------------
(* Inputs of the handlers *)

KwhValues == {0, tier1Cap + 1} \cup {k * tier1Cap : k \in 1..MaxTiers}
KvaValues == {0, 460, PowerThreshold, PowerThreshold + 1}
PowerPriceValues == {0, 1500}
EnergyPriceValues == {0, 1800}
SupplierNames == {"", "EDP"}

\* the fields the form edits, and the numbers typed into each
BillFieldValues ==
  [ monthlyConsumptionKwh |-> KwhValues,
    contractedPowerKva |-> KvaValues,
    currentPowerPricePerDay |-> PowerPriceValues,
    currentEnergyPricePerKwh |-> EnergyPriceValues,
    audiovisualTax |-> {0, 15000},
    dgegTax |-> {0, 1000},
    ieceTax |-> {0, 60000},
    socialTariff |-> {0, -50000} ]

OfferFieldValues ==
  [ powerPricePerDay |-> PowerPriceValues,
    energyPricePerKwh |-> EnergyPriceValues ]

\* the text of a number input: a number, or text parseFloat rejects
NumberText(n) == [numeric |-> TRUE, n |-> n]
EmptyText == [numeric |-> FALSE, n |-> 0]
Texts(values) == {NumberText(n) : n \in values} \cup {EmptyText}

\* bills found in saved simulation documents
ExampleBill ==
  [ monthlyConsumptionKwh |-> 200,
    contractedPowerKva |-> 460,
    audiovisualTax |-> 15000,
    dgegTax |-> 1000,
    ieceTax |-> 60000,
    socialTariff |-> 0,
    totalAmount |-> 0,
    billingPeriodDays |-> 30,
    currentPowerPricePerDay |-> 1500,
    currentEnergyPricePerKwh |-> 1800 ]

SavedBills ==
  { ExampleBill,
    [ExampleBill EXCEPT !.billingPeriodDays = 60],
    [ExampleBill EXCEPT !.billingPeriodDays = 0] }

SavedOffers ==
  { [supplierName |-> "EDP", powerPricePerDay |-> 1500, energyPricePerKwh |-> 0] }

\* a parsed JSON document: an object with some of the keys of SavedSimulation
SimulationDocs ==
  { [version |-> "1.0", timestamp |-> "t", billData |-> b, newOffer |-> o] :
      b \in SavedBills, o \in SavedOffers }
  \cup { [version |-> "1.0", timestamp |-> "t", billData |-> b] : b \in SavedBills }
  \cup { [version |-> "1.0", timestamp |-> "t", newOffer |-> o] : o \in SavedOffers }

\* the content of a selected file: text JSON.parse accepts (json) or rejects
JsonContent(doc) == [parses |-> TRUE, json |-> doc]
NotJson == [parses |-> FALSE, json |-> [version |-> "1.0"]]

\* files whose import takes the JSON branch of handleFileSelect
JsonFiles ==
  { [mimeType |-> "application/json", startsWithEw |-> c.parses, content |-> c] :
      c \in {JsonContent(d) : d \in SimulationDocs} \cup {NotJson} }
  \cup { [mimeType |-> "image/png", startsWithEw |-> TRUE, content |-> JsonContent(d)] :
           d \in {x \in SimulationDocs : "billData" \notin DOMAIN x} }

----------------------------------------------------------------------------
(* The component *)

\* nothing downloaded yet
NoDownload == [saved |-> FALSE]

Init ==
  /\ status = IDLE
  /\ errorMsg = NoError
  /\ billData = getInitialBillData
  /\ newOffer = getInitialOfferData
  /\ multiSimulations = << >>
  /\ extractions = << >>
  /\ batches = << >>
  /\ download = NoDownload

\* an extraction in flight stays in flight; the note records that the user
\* has since reset or cleared
Abandon(inFlight) == [i \in DOMAIN inFlight |-> [inFlight[i] EXCEPT !.abandoned = TRUE]]

\* mutant: the reset keeps the saved simulations
handleReset_KeepsList(confirmed) ==
  /\ status # IDLE
  /\ IF confirmed
       THEN /\ billData' = getInitialBillData
            /\ newOffer' = getInitialOfferData
            /\ status' = IDLE
            /\ errorMsg' = NoError
            /\ extractions' = Abandon(extractions)
            /\ UNCHANGED <<multiSimulations, batches, download>>
       ELSE UNCHANGED vars

\* the header button is rendered while status # IDLE; window.confirm answers
handleReset(confirmed) ==
  /\ status # IDLE
  /\ IF confirmed
       THEN /\ billData' = getInitialBillData
            /\ newOffer' = getInitialOfferData
            /\ multiSimulations' = << >>
            /\ status' = IDLE
            /\ errorMsg' = NoError
            /\ extractions' = Abandon(extractions)
            /\ UNCHANGED <<batches, download>>
       ELSE UNCHANGED vars

\* mutant: removing the file also empties the offer
handleClearFile_ClearsOffer ==
  /\ status \in {SUCCESS, ERROR}
  /\ billData' = getInitialBillData
  /\ newOffer' = getInitialOfferData
  /\ status' = IDLE
  /\ errorMsg' = NoError
  /\ extractions' = Abandon(extractions)
  /\ UNCHANGED <<multiSimulations, batches, download>>

\* FileUpload shows its remove button when a file is selected and not loading
handleClearFile ==
  /\ status \in {SUCCESS, ERROR}
  /\ billData' = getInitialBillData
  /\ status' = IDLE
  /\ errorMsg' = NoError
  /\ extractions' = Abandon(extractions)
  /\ UNCHANGED <<newOffer, multiSimulations, batches, download>>

\* the JSON branch: it runs to its return or its throw without awaiting
IsJsonFile(file) == file.mimeType = "application/json" \/ file.startsWithEw

handleFileSelectJson(file) ==
  /\ status # ANALYZING
  /\ IsJsonFile(file)
  /\ LET savedData == file.content.json
         valid == /\ file.content.parses
                  /\ "billData" \in DOMAIN savedData
                  /\ "newOffer" \in DOMAIN savedData
     IN IF valid
          THEN /\ billData' = savedData.billData
               /\ newOffer' = savedData.newOffer
               /\ status' = SUCCESS
               /\ errorMsg' = NoError
          ELSE /\ errorMsg' = "O ficheiro JSON nao e uma simulacao valida."
               /\ status' = ERROR
               /\ UNCHANGED <<billData, newOffer>>
  /\ UNCHANGED <<multiSimulations, extractions, batches, download>>

handleBillChange(field, value) ==
  /\ LET numValue == OrZero(parseFloat(value))
     IN billData' = [billData EXCEPT ![field] = numValue]
  /\ UNCHANGED <<status, errorMsg, newOffer, multiSimulations, extractions, batches, download>>

handleOfferChange(field, value) ==
  /\ IF field = "supplierName"
       THEN newOffer' = [newOffer EXCEPT ![field] = value]
       ELSE LET numValue == OrZero(parseFloat(value))
            IN newOffer' = [newOffer EXCEPT ![field] = numValue]
  /\ UNCHANGED <<status, errorMsg, billData, multiSimulations, extractions, batches, download>>

EditBill ==
  \E field \in DOMAIN BillFieldValues :
    \E value \in Texts(BillFieldValues[field]) : handleBillChange(field, value)

EditOffer ==
  \/ \E name \in SupplierNames : handleOfferChange("supplierName", name)
  \/ \E field \in DOMAIN OfferFieldValues :
       \E value \in Texts(OfferFieldValues[field]) : handleOfferChange(field, value)

SelectJsonFile == \E file \in JsonFiles : handleFileSelectJson(file)

ClearFile == handleClearFile

Reset == \E confirmed \in BOOLEAN : handleReset(confirmed)

Next ==
  \/ EditBill
  \/ EditOffer
  \/ SelectJsonFile
  \/ ClearFile
  \/ Reset

Spec == Init /\ [][Next]_vars

----------------------------------------------------------------------------
(* Properties of the calculation, stated on the two calculations a render  *)
(* makes: the current bill's (own unit prices) and the offer's.            *)

\* the arguments and the result of each of the two calls of calculateWithVat
Calls ==
  { [ consumption |-> billData.monthlyConsumptionKwh,
      powerKva |-> billData.contractedPowerKva,
      days |-> billData.billingPeriodDays,
      powerPrice |-> billData.currentPowerPricePerDay,
      energyPrice |-> billData.currentEnergyPricePerKwh,
      taxes |-> billTaxes(billData),
      result |-> currentCalculated ],
    [ consumption |-> billData.monthlyConsumptionKwh,
      powerKva |-> billData.contractedPowerKva,
      days |-> billData.billingPeriodDays,
      powerPrice |-> newOffer.powerPricePerDay,
      energyPrice |-> newOffer.energyPricePerKwh,
      taxes |-> billTaxes(billData),
      result |-> newOfferCalc ] }

Categories == {"energy", "power", "taxes"}

\* C1: with billing days > 0 and non-negative prices, the grand total is
\* base + vat, and each of the energy, power and taxes breakdowns has
\* total = base + vat.
C1_TotalIsBasePlusVat ==
  \A c \in Calls :
    (c.days > 0 /\ c.powerPrice >= 0 /\ c.energyPrice >= 0) =>
      /\ c.result.total = c.result.base + c.result.vat
      /\ \A k \in Categories :
           c.result.components[k].total =
             c.result.components[k].base + c.result.components[k].vat

C1_Witness ==
  /\ billData.billingPeriodDays > 0
  /\ billData.monthlyConsumptionKwh > tier1Cap
  /\ billData.currentPowerPricePerDay > 0
  /\ billData.currentEnergyPricePerKwh > 0
  /\ billData.socialTariff < 0
  /\ billData.audiovisualTax > 0
  /\ currentCalculated.vat > 0
  /\ currentCalculated.total = currentCalculated.base + currentCalculated.vat

\* the worked example: 200 kWh, 4.6 kVA, 30 days, 0.15 EUR/day, 0.18 EUR/kWh,
\* CAV 1.5, DGEG 0.10, IEC 6.0, social 0
IsExampleCall(c) ==
  /\ c.consumption = 200
  /\ c.powerKva = 460
  /\ c.days = 30
  /\ c.powerPrice = 1500
  /\ c.energyPrice = 1800
  /\ c.taxes = [cav |-> 15000, dgeg |-> 1000, iec |-> 60000, social |-> 0]

\* C2 as stated: the worked example gives power base 4.50, energy base 36.00,
\* energy VAT 4.68 (tier 1 = 0.54, tier 2 = 4.14), power VAT 0.27, base 48.10,
\* tax 6.443, total 54.543.
C2_WorkedExampleAsStated ==
  \A c \in Calls :
    IsExampleCall(c) =>
      /\ c.result.components.power.base = 45000
      /\ c.result.components.energy.base = 360000
      /\ c.result.components.energy.vat = 5400 + 41400
      /\ c.result.components.power.vat = 2700
      /\ c.result.base = 481000
      /\ c.result.vat = 64430
      /\ c.result.total = 545430

\* C2 amended: the worked example gives power base 4.50, energy base 36.00,
\* energy VAT 5.22 (tier 1: 100 kWh * 0.18 * 6% = 1.08, tier 2: 100 kWh * 0.18
\* * 23% = 4.14), power VAT 0.27, base 48.10, tax 6.983, total 55.083.
C2_WorkedExample ==
  \A c \in Calls :
    IsExampleCall(c) =>
      /\ c.result.components.power.base = 45000
      /\ c.result.components.energy.base = 360000
      /\ c.result.components.energy.vat = 10800 + 41400
      /\ c.result.components.power.vat = 2700
      /\ c.result.components.taxes.vat = 900 + 230 + 13800
      /\ c.result.base = 481000
      /\ c.result.vat = 69830
      /\ c.result.total = 550830

C2_Witness ==
  /\ \E c \in Calls : IsExampleCall(c) /\ c.result = currentCalculated
  /\ currentCalculated.total = 550830

\* C3: in the low power bracket the energy VAT is the first 100 kWh at the
\* low rate plus the kWh above 100 at the standard rate, both at the same
\* unit price, the two quantities adding up to the consumption; above 6.9 kVA
\* it is the whole energy base at the standard rate.
C3_EnergyVatTiers ==
  \A c \in Calls :
    LET tier1 == IF c.consumption < tier1Cap THEN c.consumption ELSE tier1Cap
        tier2 == c.consumption - tier1
    IN /\ tier2 >= 0
       /\ c.powerKva <= PowerThreshold =>
            c.result.components.energy.vat * RateScale =
              tier1 * c.energyPrice * IVA_LOW + tier2 * c.energyPrice * IVA_NORMAL
       /\ c.powerKva > PowerThreshold =>
            c.result.components.energy.vat * RateScale =
              c.result.components.energy.base * IVA_NORMAL

C3_Witness ==
  /\ billData.contractedPowerKva <= PowerThreshold
  /\ billData.contractedPowerKva > 0
  /\ billData.monthlyConsumptionKwh = tier1Cap + 1
  /\ billData.currentEnergyPricePerKwh > 0
  /\ currentCalculated.components.energy.vat =
       Rate(tier1Cap * billData.currentEnergyPricePerKwh, IVA_LOW)
         + Rate(billData.currentEnergyPricePerKwh, IVA_NORMAL)

\* C4: the power VAT is days * powerPrice at the low rate when the contracted
\* power is at most 6.9 kVA, 6.9 included, and at the standard rate above.
C4_PowerVatBracket ==
  \A c \in Calls :
    /\ c.result.components.power.base = c.days * c.powerPrice
    /\ c.powerKva <= PowerThreshold =>
         c.result.components.power.vat * RateScale = c.days * c.powerPrice * IVA_LOW
    /\ c.powerKva > PowerThreshold =>
         c.result.components.power.vat * RateScale = c.days * c.powerPrice * IVA_NORMAL

C4_Witness ==
  /\ billData.contractedPowerKva = PowerThreshold
  /\ billData.billingPeriodDays > 0
  /\ billData.currentPowerPricePerDay > 0
  /\ currentCalculated.components.power.vat > 0
  /\ currentCalculated.components.power.vat * RateScale =
       currentCalculated.components.power.base * IVA_LOW

\* C5 as stated: in the low bracket, consumption <= 100 kWh gives energy VAT
\* = energy base * low rate, and consumption > 100 kWh gives an energy VAT
\* strictly between base * low rate and base * standard rate, for every
\* energy price >= 0.
C5_StrictBlendAnyPrice ==
  \A c \in Calls :
    (c.powerKva <= PowerThreshold /\ c.energyPrice >= 0) =>
      LET e == c.result.components.energy
      IN /\ c.consumption <= tier1Cap => e.vat * RateScale = e.base * IVA_LOW
         /\ c.consumption > tier1Cap =>
              /\ e.vat * RateScale > e.base * IVA_LOW
              /\ e.vat * RateScale < e.base * IVA_NORMAL

\* C5 amended: the blend is strictly between the two bounds for every energy
\* price > 0; at energy price 0 the energy VAT and both bounds are 0.
C5_StrictBlendPositivePrice ==
  \A c \in Calls :
    (c.powerKva <= PowerThreshold /\ c.energyPrice >= 0) =>
      LET e == c.result.components.energy
      IN /\ c.consumption <= tier1Cap => e.vat * RateScale = e.base * IVA_LOW
         /\ (c.consumption > tier1Cap /\ c.energyPrice > 0) =>
              /\ e.vat * RateScale > e.base * IVA_LOW
              /\ e.vat * RateScale < e.base * IVA_NORMAL
         /\ c.energyPrice = 0 => (e.vat = 0 /\ e.base = 0)

C5_Witness ==
  /\ billData.contractedPowerKva <= PowerThreshold
  /\ billData.monthlyConsumptionKwh > tier1Cap
  /\ billData.currentEnergyPricePerKwh > 0
  /\ currentCalculated.components.energy.vat * RateScale >
       currentCalculated.components.energy.base * IVA_LOW
  /\ currentCalculated.components.energy.vat * RateScale <
       currentCalculated.components.energy.base * IVA_NORMAL

\* C6: above 6.9 kVA both the energy base and the power base are taxed at the
\* standard rate for every consumption, 0 and at most 100 kWh included.
C6_HighPowerStandardRate ==
  \A c \in Calls :
    c.powerKva > PowerThreshold =>
      /\ c.result.components.energy.base = c.consumption * c.energyPrice
      /\ c.result.components.energy.vat * RateScale =
           c.consumption * c.energyPrice * IVA_NORMAL
      /\ c.result.components.power.vat * RateScale =
           c.result.components.power.base * IVA_NORMAL

C6_Witness ==
  /\ billData.contractedPowerKva > PowerThreshold
  /\ billData.monthlyConsumptionKwh > 0
  /\ billData.monthlyConsumptionKwh <= tier1Cap
  /\ billData.currentEnergyPricePerKwh > 0
  /\ billData.currentPowerPricePerDay > 0
  /\ billData.billingPeriodDays > 0
  /\ currentCalculated.components.energy.vat > 0
  /\ currentCalculated.components.power.vat > 0

\* C7: the VAT on the taxes is cav * low rate + dgeg * standard rate + iec *
\* standard rate, whatever the contracted power and the consumption; the
\* social tariff is part of the taxes base and of the base total and of no
\* VAT amount.
C7_TaxesVat ==
  \A c \in Calls :
    LET t == c.taxes
        taxVat100 == t.cav * IVA_LOW + t.dgeg * IVA_NORMAL + t.iec * IVA_NORMAL
    IN /\ c.result.components.taxes.vat * RateScale = taxVat100
       /\ \A kwh \in KwhValues, kva \in KvaValues :
            calculateWithVat(kwh, kva, c.days, c.powerPrice, c.energyPrice, t)
              .components.taxes.vat * RateScale = taxVat100
       /\ c.result.components.taxes.base = t.cav + t.dgeg + t.iec + t.social
       /\ c.result.base =
            c.days * c.powerPrice + c.consumption * c.energyPrice
              + t.cav + t.dgeg + t.iec + t.social
       /\ c.result.vat * RateScale =
            c.result.components.power.vat * RateScale
              + c.result.components.energy.vat * RateScale + taxVat100

C7_Witness ==
  /\ billData.audiovisualTax > 0
  /\ billData.dgegTax > 0
  /\ billData.ieceTax > 0
  /\ billData.socialTariff < 0
  /\ billData.monthlyConsumptionKwh > 0
  /\ currentCalculated.components.taxes.vat > 0
  /\ currentCalculated.components.taxes.base =
       billData.audiovisualTax + billData.dgegTax + billData.ieceTax
         + billData.socialTariff

\* C8: two calculations that differ only in the social tariff, s against 0,
\* differ by exactly s in the base total and in the grand total and have the
\* same tax total; social = -5 lowers the base total by exactly 5.
C8_SocialTariffShift ==
  \A c \in Calls :
    LET s == c.taxes.social
        without == calculateWithVat(c.consumption, c.powerKva, c.days, c.powerPrice,
                                    c.energyPrice, [c.taxes EXCEPT !.social = 0])
    IN /\ c.result.base - without.base = s
       /\ c.result.total - without.total = s
       /\ c.result.vat = without.vat
       /\ s = -50000 => c.result.base = without.base - 50000

C8_Witness ==
  /\ billData.socialTariff = -50000
  /\ billData.monthlyConsumptionKwh > 0
  /\ billData.currentEnergyPricePerKwh > 0
  /\ billData.ieceTax > 0
  /\ currentCalculated.base =
       currentCalculatedOf([billData EXCEPT !.socialTariff = 0]).base - 50000
  /\ currentCalculated.vat =
       currentCalculatedOf([billData EXCEPT !.socialTariff = 0]).vat

\* C9: the comparison is null whenever the bill's consumption is 0, whatever
\* the other values, and non-null whenever the consumption is not 0.
C9_NullIffNoConsumption ==
  comparison.isNull <=> (billData.monthlyConsumptionKwh = 0)

C9_Witness ==
  /\ billData.monthlyConsumptionKwh = 0
  /\ billData.contractedPowerKva > 0
  /\ billData.billingPeriodDays = 0
  /\ billData.currentEnergyPricePerKwh > 0
  /\ newOffer.powerPricePerDay > 0
  /\ comparison = Null

\* C10: billing days = 0 reaching the yearly-savings extrapolation is guarded:
\* no comparison carries an infinite or NaN yearlySavings.
C10_YearlySavingsFinite ==
  ~comparison.isNull => comparison.yearlySavings.k = "finite"

----------------------------------------------------------------------------
(* Properties of the comparison *)

\* C11: in a non-null comparison, difference = currentTotal - newTotal and
\* isCheaper holds exactly when newTotal < currentTotal, that is when
\* difference > 0; equal totals give isCheaper = false and difference = 0.
C11_DifferenceAndCheaper ==
  LET c == comparison
  IN ~c.isNull =>
       /\ c.currentTotal = currentCalculated.total
       /\ c.newTotal = newOfferCalc.total
       /\ c.difference = c.currentTotal - c.newTotal
       /\ c.isCheaper <=> (c.newTotal < c.currentTotal)
       /\ c.isCheaper <=> (c.difference > 0)
       /\ c.currentTotal = c.newTotal => (~c.isCheaper /\ c.difference = 0)

C11_Witness ==
  /\ ~comparison.isNull
  /\ billData.currentEnergyPricePerKwh > 0
  /\ billData.currentPowerPricePerDay > 0
  /\ billData.billingPeriodDays > 0
  /\ comparison.currentTotal = comparison.newTotal
  /\ ~comparison.isCheaper
  /\ comparison.difference = 0

\* C12: the current and the new cost are computed on the same consumption,
\* power, days and taxes and differ only in the unit prices: the taxes
\* category total is the same for both, and the difference is the difference
\* of the energy and power category totals alone.
C12_SameBillDifferentPrices ==
  LET c == comparison
  IN ~c.isNull =>
       /\ c.details.taxes.current = c.details.taxes.new
       /\ c.difference =
            (c.details.energyCost.current + c.details.powerCost.current)
              - (c.details.energyCost.new + c.details.powerCost.new)
       /\ c.currentBase - c.newBase =
            billData.billingPeriodDays
                * (billData.currentPowerPricePerDay - newOffer.powerPricePerDay)
              + billData.monthlyConsumptionKwh
                  * (billData.currentEnergyPricePerKwh - newOffer.energyPricePerKwh)
       /\ (/\ billData.currentPowerPricePerDay = newOffer.powerPricePerDay
           /\ billData.currentEnergyPricePerKwh = newOffer.energyPricePerKwh)
            => c.difference = 0

C12_Witness ==
  /\ ~comparison.isNull
  /\ billData.audiovisualTax > 0
  /\ billData.ieceTax > 0
  /\ billData.socialTariff < 0
  /\ billData.billingPeriodDays > 0
  /\ billData.currentPowerPricePerDay # newOffer.powerPricePerDay
  /\ billData.currentEnergyPricePerKwh # newOffer.energyPricePerKwh
  /\ comparison.details.taxes.current = comparison.details.taxes.new
  /\ comparison.details.taxes.current # 0
  /\ comparison.difference # 0

\* C30: the three sub-breakdowns partition the result of calculateWithVat:
\* their bases add up to base, their VAT to vat and their totals to total, so
\* the per-category figures of a comparison add up to currentTotal and
\* newTotal.
C30_BreakdownsPartition ==
  LET c == comparison
  IN /\ \A call \in Calls :
          LET r == call.result
              parts == r.components
          IN /\ parts.energy.base + parts.power.base + parts.taxes.base = r.base
             /\ parts.energy.vat + parts.power.vat + parts.taxes.vat = r.vat
             /\ parts.energy.total + parts.power.total + parts.taxes.total = r.total
     /\ ~c.isNull =>
          /\ c.details.energyCost.current + c.details.powerCost.current
               + c.details.taxes.current = c.currentTotal
          /\ c.details.energyCost.new + c.details.powerCost.new
               + c.details.taxes.new = c.newTotal

C30_Witness ==
  LET c == comparison
  IN /\ ~c.isNull
     /\ c.details.energyCost.current > 0
     /\ c.details.powerCost.current > 0
     /\ c.details.taxes.current < 0
     /\ c.details.energyCost.new = 0
     /\ c.details.powerCost.new > 0
     /\ currentCalculated.components.taxes.vat > 0
     /\ c.currentTotal # c.newTotal

----------------------------------------------------------------------------
(* Multi comparisons: the ranking of the saved simulations *)

\* Bound of the model: simulations in the list plus files being read
MaxSims == 3

\* mutant: descending order
compareTotals_Descending(a, b) == b.calculatedTotal - a.calculatedTotal

\* the comparator of results.sort: a.calculatedTotal - b.calculatedTotal
compareTotals(a, b) == a.calculatedTotal - b.calculatedTotal

\* Array.prototype.sort is a stable sort: r goes after every element that the
\* comparator does not place after it
RECURSIVE InsertSorted(_, _)
InsertSorted(sorted, r) ==
  IF sorted = << >> THEN <<r>>
  ELSE IF compareTotals(Head(sorted), r) <= 0
         THEN <<Head(sorted)>> \o InsertSorted(Tail(sorted), r)
         ELSE <<r>> \o sorted

RECURSIVE sort(_)
sort(results) ==
  IF results = << >> THEN << >>
  ELSE InsertSorted(sort(SubSeq(results, 1, Len(results) - 1)),
                    results[Len(results)])

\* mutant: the yearly figure is what the offer costs more, not what it saves
rankedResult_CostsMore(bill, sim, index) ==
  LET calc == calculateWithVat(bill.monthlyConsumptionKwh, bill.contractedPowerKva,
                               bill.billingPeriodDays, sim.newOffer.powerPricePerDay,
                               sim.newOffer.energyPricePerKwh, billTaxes(bill))
      diff == calc.total - currentCalculatedOf(bill).total
  IN [ originalIndex |-> index,
       calculatedTotal |-> calc.total,
       yearlySavings |-> JsTimes(diff, JsDivide(DaysPerYear, bill.billingPeriodDays)),
       isCheaper |-> calc.total < currentCalculatedOf(bill).total ] @@ sim

\* mutant: the offer is costed on the bill saved with it
rankedResult_OwnBill(bill, sim, index) ==
  LET calc == calculateWithVat(sim.billData.monthlyConsumptionKwh,
                               sim.billData.contractedPowerKva,
                               sim.billData.billingPeriodDays,
                               sim.newOffer.powerPricePerDay,
                               sim.newOffer.energyPricePerKwh, billTaxes(sim.billData))
      diff == currentCalculatedOf(bill).total - calc.total
  IN [ originalIndex |-> index,
       calculatedTotal |-> calc.total,
       yearlySavings |-> JsTimes(diff, JsDivide(DaysPerYear, bill.billingPeriodDays)),
       isCheaper |-> calc.total < currentCalculatedOf(bill).total ] @@ sim

\* mutant: originalIndex is the rank base 1
rankedResult_IndexFromOne(bill, sim, index) ==
  LET calc == calculateWithVat(bill.monthlyConsumptionKwh, bill.contractedPowerKva,
                               bill.billingPeriodDays, sim.newOffer.powerPricePerDay,
                               sim.newOffer.energyPricePerKwh, billTaxes(bill))
      diff == currentCalculatedOf(bill).total - calc.total
  IN [ originalIndex |-> index + 1,
       calculatedTotal |-> calc.total,
       yearlySavings |-> JsTimes(diff, JsDivide(DaysPerYear, bill.billingPeriodDays)),
       isCheaper |-> calc.total < currentCalculatedOf(bill).total ] @@ sim

\* one element of results: { ...sim, originalIndex, calculatedTotal,
\* yearlySavings, isCheaper }; index counts from 0
rankedResult(bill, sim, index) ==
  LET calc == calculateWithVat(bill.monthlyConsumptionKwh,
                               bill.contractedPowerKva,
                               bill.billingPeriodDays,
                               sim.newOffer.powerPricePerDay,
                               sim.newOffer.energyPricePerKwh,
                               billTaxes(bill))
      diff == currentCalculatedOf(bill).total - calc.total
      yearlySavings == JsTimes(diff, JsDivide(DaysPerYear, bill.billingPeriodDays))
  IN [ originalIndex |-> index,
       calculatedTotal |-> calc.total,
       yearlySavings |-> yearlySavings,
       isCheaper |-> calc.total < currentCalculatedOf(bill).total ] @@ sim

\* mutant: the guard looks at the list only
multiComparisonResultsOf_ListGuardOnly(bill, sims) ==
  IF Len(sims) = 0 THEN << >>
  ELSE sort([i \in 1..Len(sims) |-> rankedResult(bill, sims[i], i - 1)])

multiComparisonResultsOf(bill, sims) ==
  IF bill.monthlyConsumptionKwh = 0 \/ Len(sims) = 0 THEN << >>
  ELSE sort([i \in 1..Len(sims) |-> rankedResult(bill, sims[i], i - 1)])

multiComparisonResults == multiComparisonResultsOf(billData, multiSimulations)

\* saved simulations found in the files of a batch
SimEqual ==
  [ version |-> "1.0", timestamp |-> "t1", billData |-> ExampleBill,
    newOffer |-> [supplierName |-> "EDP", powerPricePerDay |-> 1500,
                  energyPricePerKwh |-> 1800] ]
SimEqualToo ==
  [ version |-> "1.0", timestamp |-> "t2",
    billData |-> [ExampleBill EXCEPT !.monthlyConsumptionKwh = 100,
                                     !.contractedPowerKva = 1035,
                                     !.billingPeriodDays = 60,
                                     !.socialTariff = -50000],
    newOffer |-> [supplierName |-> "Galp", powerPricePerDay |-> 1500,
                  energyPricePerKwh |-> 1800] ]
SimCheaper ==
  [ version |-> "1.0", timestamp |-> "t3", billData |-> getInitialBillData,
    newOffer |-> [supplierName |-> "", powerPricePerDay |-> 1500,
                  energyPricePerKwh |-> 0] ]
\* written without a timestamp
SimDearer ==
  [ version |-> "1.0", billData |-> ExampleBill,
    newOffer |-> [supplierName |-> "Endesa", powerPricePerDay |-> 3000,
                  energyPricePerKwh |-> 1800] ]

\* the text of a file of a batch: a simulation, JSON without newOffer, or text
\* that is empty or that JSON.parse rejects
BatchFileContents ==
  { JsonContent(d) : d \in {SimEqual, SimEqualToo, SimCheaper, SimDearer} }
  \cup { JsonContent([version |-> "1.0", timestamp |-> "t", billData |-> ExampleBill]),
         NotJson }

Range(seq) == {seq[i] : i \in DOMAIN seq}

RemoveAt(seq, i) == SubSeq(seq, 1, i - 1) \o SubSeq(seq, i + 1, Len(seq))

\* files handed to FileReaders and not yet called back
FilesInFlight(bs) ==
  LET RECURSIVE Count(_)
      Count(i) == IF i = 0 THEN 0 ELSE Len(bs[i].files) + Count(i - 1)
  IN Count(Len(bs))

\* the file input of the multi comparison section is rendered with the
\* comparison; each file gets a FileReader
handleAddMultiSimulations(files) ==
  /\ ~comparison.isNull
  /\ Len(files) > 0
  /\ Len(multiSimulations) + FilesInFlight(batches) + Len(files) <= MaxSims
  /\ batches' = Append(batches, [files |-> files, processed |-> {}, unread |-> {},
                                newSims |-> << >>])
  /\ UNCHANGED <<status, errorMsg, billData, newOffer, multiSimulations, extractions, download>>

\* mutant: every accepted file goes to the list in its own callback
readerOnload_AppendsEach(b, i) ==
  /\ b \in DOMAIN batches
  /\ i \in DOMAIN batches[b].files
  /\ i \notin batches[b].processed \cup batches[b].unread
  /\ LET batch == batches[b]
         content == batch.files[i]
         accepted == content.parses /\ "newOffer" \in DOMAIN content.json
         json == IF "timestamp" \in DOMAIN content.json
                   THEN content.json
                   ELSE [timestamp |-> "now"] @@ content.json
         processed == batch.processed \cup {i}
     IN /\ multiSimulations' = IF accepted THEN Append(multiSimulations, json)
                                            ELSE multiSimulations
        /\ IF Cardinality(processed) = Len(batch.files)
             THEN batches' = RemoveAt(batches, b)
             ELSE batches' = [batches EXCEPT ![b].processed = processed]
  /\ UNCHANGED <<status, errorMsg, billData, newOffer, extractions, download>>

\* mutant: the commit writes the batch over the list
readerOnload_Overwrites(b, i) ==
  /\ b \in DOMAIN batches
  /\ i \in DOMAIN batches[b].files
  /\ i \notin batches[b].processed \cup batches[b].unread
  /\ LET batch == batches[b]
         content == batch.files[i]
         accepted == content.parses /\ "newOffer" \in DOMAIN content.json
         json == IF "timestamp" \in DOMAIN content.json
                   THEN content.json
                   ELSE [timestamp |-> "now"] @@ content.json
         newSims == IF accepted THEN Append(batch.newSims, json) ELSE batch.newSims
         processed == batch.processed \cup {i}
     IN IF Cardinality(processed) = Len(batch.files)
          THEN /\ multiSimulations' = newSims
               /\ batches' = RemoveAt(batches, b)
          ELSE /\ batches' = [batches EXCEPT ![b].processed = processed,
                                             ![b].newSims = newSims]
               /\ UNCHANGED multiSimulations
  /\ UNCHANGED <<status, errorMsg, billData, newOffer, extractions, download>>

\* reader.onload of file i of batch b: processedCount counts the callbacks
readerOnload(b, i) ==
  /\ b \in DOMAIN batches
  /\ i \in DOMAIN batches[b].files
  /\ i \notin batches[b].processed \cup batches[b].unread
  /\ LET batch == batches[b]
         content == batch.files[i]
         accepted == content.parses /\ "newOffer" \in DOMAIN content.json
         json == IF "timestamp" \in DOMAIN content.json
                   THEN content.json
                   ELSE [timestamp |-> "now"] @@ content.json
         newSims == IF accepted THEN Append(batch.newSims, json) ELSE batch.newSims
         processed == batch.processed \cup {i}
     IN IF Cardinality(processed) = Len(batch.files)
          THEN /\ multiSimulations' = multiSimulations \o newSims
               /\ batches' = RemoveAt(batches, b)
          ELSE /\ batches' = [batches EXCEPT ![b].processed = processed,
                                             ![b].newSims = newSims]
               /\ UNCHANGED multiSimulations
  /\ UNCHANGED <<status, errorMsg, billData, newOffer, extractions, download>>

\* the read of file i of batch b fails: the reader has no onerror, so no
\* callback runs and processedCount stays
readerOnerror(b, i) ==
  /\ b \in DOMAIN batches
  /\ i \in DOMAIN batches[b].files
  /\ i \notin batches[b].processed \cup batches[b].unread
  /\ batches' = [batches EXCEPT ![b].unread = @ \cup {i}]
  /\ UNCHANGED <<status, errorMsg, billData, newOffer, multiSimulations, extractions, download>>

\* mutant: the filter keeps the simulation at the index and drops the others
removeMultiSimulation_KeepsOnlyIndex(index) ==
  /\ \E r \in Range(multiComparisonResults) : r.originalIndex = index
  /\ multiSimulations' = SelectSeq(multiSimulations, LAMBDA x : x = multiSimulations[index + 1])
  /\ UNCHANGED <<status, errorMsg, billData, newOffer, extractions, batches, download>>

\* the remove button of a ranked row passes the row's originalIndex
removeMultiSimulation(index) ==
  /\ \E r \in Range(multiComparisonResults) : r.originalIndex = index
  /\ multiSimulations' =
       LET kept == {i \in DOMAIN multiSimulations : i - 1 # index}
           RECURSIVE Filter(_)
           Filter(i) == IF i = 0 THEN << >>
                        ELSE IF i \in kept THEN Append(Filter(i - 1), multiSimulations[i])
                        ELSE Filter(i - 1)
       IN Filter(Len(multiSimulations))
  /\ UNCHANGED <<status, errorMsg, billData, newOffer, extractions, batches, download>>

\* sequences of 1..n files
FileLists(n) == UNION { [1..k -> BatchFileContents] : k \in 1..n }

\* one batch at a time
AddMultiSimulations ==
  /\ batches = << >>
  /\ \E files \in FileLists(MaxSims - Len(multiSimulations)) :
       handleAddMultiSimulations(files)

ReaderOnload ==
  \E b \in DOMAIN batches : \E i \in DOMAIN batches[b].files : readerOnload(b, i)

RemoveMultiSimulation ==
  \E index \in 0..(Len(multiSimulations) - 1) : removeMultiSimulation(index)

\* the ranking: a bill comes from an imported simulation, simulations are
\* added in batches and removed by row
NextRank ==
  \/ SelectJsonFile
  \/ ClearFile
  \/ Reset
  \/ AddMultiSimulations
  \/ ReaderOnload
  \/ RemoveMultiSimulation

SpecRank == Init /\ [][NextRank]_vars

----------------------------------------------------------------------------
(* Properties of the ranking *)

\* the yearly figure y extrapolates diff over a year of billing periods of
\* days > 0 days: y = diff * 365 / days, stated per day as y / 365 = diff / days
\* to stay within 32 bits, and so has the sign of diff
IsYearlyOf(y, diff, days) ==
  /\ y.k = "finite"
  /\ y.den > 0
  /\ y.num % DaysPerYear = 0
  /\ (y.num \div DaysPerYear) * days = diff * y.den
  /\ (y.num > 0) <=> (diff > 0)
  /\ (y.num = 0) <=> (diff = 0)

\* C13: for billing days > 0, yearlySavings = difference * (365 / days) in the
\* comparison and in every ranked result, so it is positive exactly when the
\* offer is cheaper than the current contract and zero when the totals are
\* equal.
C13_YearlySavings ==
  LET c == comparison
      results == multiComparisonResults
      current == currentCalculated.total
  IN billData.billingPeriodDays > 0 =>
       /\ ~c.isNull =>
            /\ IsYearlyOf(c.yearlySavings, c.difference, billData.billingPeriodDays)
            /\ (c.yearlySavings.num > 0) <=> (c.newTotal < c.currentTotal)
       /\ \A i \in DOMAIN results :
            /\ IsYearlyOf(results[i].yearlySavings,
                          current - results[i].calculatedTotal,
                          billData.billingPeriodDays)
            /\ (results[i].yearlySavings.num > 0)
                 <=> (results[i].calculatedTotal < current)
            /\ (results[i].yearlySavings.num = 0)
                 <=> (results[i].calculatedTotal = current)

C13_Witness ==
  LET results == multiComparisonResults
  IN /\ billData.billingPeriodDays = 60
     /\ Len(results) = 3
     /\ results[1].yearlySavings.k = "finite"
     /\ results[1].yearlySavings.num > 0
     /\ results[2].yearlySavings.num = 0
     /\ results[3].yearlySavings.num < 0
     /\ (results[1].yearlySavings.num \div DaysPerYear) * 60 =
          (currentCalculated.total - results[1].calculatedTotal)
            * results[1].yearlySavings.den

\* C14: with consumption # 0, the ranked output is in non-decreasing order of
\* calculatedTotal, and offers of equal calculatedTotal keep the relative order
\* they have in the saved-simulation list.
C14_SortedAndStable ==
  LET results == multiComparisonResults
  IN billData.monthlyConsumptionKwh # 0 =>
       \A i, j \in DOMAIN results :
         i < j =>
           /\ results[i].calculatedTotal <= results[j].calculatedTotal
           /\ results[i].calculatedTotal = results[j].calculatedTotal =>
                results[i].originalIndex < results[j].originalIndex

C14_Witness ==
  LET results == multiComparisonResults
  IN /\ Len(results) = 3
     /\ results[1].originalIndex = 2
     /\ results[1].calculatedTotal < results[2].calculatedTotal
     /\ results[2].calculatedTotal = results[3].calculatedTotal
     /\ results[2].originalIndex = 0
     /\ results[3].originalIndex = 1
     /\ results[2].newOffer.supplierName # results[3].newOffer.supplierName

\* what the ranking shows of a result, apart from the saved document itself
Figures(results) ==
  [ i \in DOMAIN results |->
      [ originalIndex |-> results[i].originalIndex,
        calculatedTotal |-> results[i].calculatedTotal,
        yearlySavings |-> results[i].yearlySavings,
        isCheaper |-> results[i].isCheaper ] ]

\* the list with every saved bill replaced by bill
WithSavedBill(sims, bill) == [i \in DOMAIN sims |-> [sims[i] EXCEPT !.billData = bill]]

OtherSavedBills == SavedBills \cup {getInitialBillData, SimEqualToo.billData}

\* C15: the ranking depends on a saved simulation only through its offer's
\* unit prices: lists that agree on every newOffer and differ in the saved
\* billData give the same calculatedTotal, yearlySavings and order, all
\* computed from the current bill's consumption, power, days and taxes.
C15_RankingIgnoresSavedBill ==
  LET results == multiComparisonResults
  IN /\ \A bill \in OtherSavedBills :
          Figures(multiComparisonResultsOf(billData,
                                           WithSavedBill(multiSimulations, bill)))
            = Figures(results)
     /\ \A i \in DOMAIN results :
          results[i].calculatedTotal =
            newOfferCalcOf(billData,
                           multiSimulations[results[i].originalIndex + 1].newOffer).total

C15_Witness ==
  LET results == multiComparisonResults
  IN /\ Len(results) >= 2
     /\ \E i, j \in DOMAIN multiSimulations :
          multiSimulations[i].billData # multiSimulations[j].billData
     /\ \E i \in DOMAIN multiSimulations :
          /\ multiSimulations[i].billData.monthlyConsumptionKwh
               # billData.monthlyConsumptionKwh
          /\ multiSimulations[i].billData.billingPeriodDays
               # billData.billingPeriodDays
     /\ results[1].calculatedTotal < results[Len(results)].calculatedTotal

\* C16: the ranked output is empty whenever the bill's consumption is 0 or the
\* saved-simulation list is empty; otherwise it has exactly one entry per
\* saved simulation.
C16_EmptyOrOnePerSimulation ==
  LET results == multiComparisonResults
  IN IF billData.monthlyConsumptionKwh = 0 \/ Len(multiSimulations) = 0
       THEN results = << >>
       ELSE Len(results) = Len(multiSimulations)

C16_Witness ==
  /\ billData.monthlyConsumptionKwh = 0
  /\ Len(multiSimulations) = 2
  /\ multiComparisonResults = << >>

\* C17: every ranked result carries as originalIndex the position of its
\* simulation in the unsorted list, the originalIndex values being a
\* permutation of 0..n-1; removing a ranked row by its originalIndex removes
\* exactly that simulation, keeps the others in their order and shrinks the
\* list by one.
OriginalIndexIsPosition ==
  LET results == multiComparisonResults
  IN billData.monthlyConsumptionKwh # 0 =>
       /\ {results[i].originalIndex : i \in DOMAIN results}
            = 0..(Len(multiSimulations) - 1)
       /\ \A i \in DOMAIN results :
            LET sim == multiSimulations[results[i].originalIndex + 1]
            IN /\ results[i].newOffer = sim.newOffer
               /\ results[i].timestamp = sim.timestamp
               /\ results[i].billData = sim.billData

\* a removal writes the list and nothing else
RemovalRemovesThatRow ==
  ( /\ multiSimulations' # multiSimulations
    /\ UNCHANGED <<status, errorMsg, billData, newOffer, extractions, batches, download>> ) =>
    LET results == multiComparisonResults
    IN \A i \in DOMAIN results :
         LET index == results[i].originalIndex
         IN removeMultiSimulation(index) =>
              /\ Len(multiSimulations') = Len(multiSimulations) - 1
              /\ multiSimulations' =
                   SubSeq(multiSimulations, 1, index)
                     \o SubSeq(multiSimulations, index + 2, Len(multiSimulations))

C17_RemoveByOriginalIndex ==
  /\ []OriginalIndexIsPosition
  /\ [][RemovalRemovesThatRow]_vars

C17_Witness ==
  LET results == multiComparisonResults
  IN /\ Len(results) = 3
     /\ results[1].originalIndex = 1
     /\ results[2].originalIndex = 0
     /\ ENABLED removeMultiSimulation(1)

\* the files of a batch that its callbacks push to newSims
ValidFiles(files) ==
  {j \in DOMAIN files : files[j].parses /\ "newOffer" \in DOMAIN files[j].json}

\* C21: a batch load of N files updates the saved-simulation list exactly
\* once, in the callback of the last of its N reads, appending every valid
\* simulation of the batch in that one update; before it the list holds none
\* of them.
C21_BatchCommitsOnce ==
  [][ batches' # batches =>
        /\ Len(batches') > Len(batches) => multiSimulations' = multiSimulations
        /\ \A b \in DOMAIN batches : \A i \in DOMAIN batches[b].files :
             readerOnload(b, i) =>
               LET files == batches[b].files
                   valid == ValidFiles(files)
                   old == Len(multiSimulations)
               IN IF batches[b].processed \cup {i} = DOMAIN files
                    THEN /\ Len(multiSimulations') = old + Cardinality(valid)
                         /\ SubSeq(multiSimulations', 1, old) = multiSimulations
                         /\ \A j \in valid :
                              \E k \in (old + 1)..Len(multiSimulations') :
                                /\ multiSimulations'[k].newOffer = files[j].json.newOffer
                                /\ multiSimulations'[k].billData = files[j].json.billData
                    ELSE multiSimulations' = multiSimulations ]_vars

C21_Witness ==
  /\ Len(batches) = 1
  /\ Len(batches[1].files) = 3
  /\ Cardinality(batches[1].processed) = 2
  /\ Len(batches[1].newSims) = 2
  /\ ValidFiles(batches[1].files) = {1, 2, 3}
  /\ multiSimulations = << >>

\* the zero-valued bill and the empty offer, written out
ZeroBill ==
  [ monthlyConsumptionKwh |-> 0, contractedPowerKva |-> 0, audiovisualTax |-> 0,
    dgegTax |-> 0, ieceTax |-> 0, socialTariff |-> 0, totalAmount |-> 0,
    billingPeriodDays |-> 30, currentPowerPricePerDay |-> 0,
    currentEnergyPricePerKwh |-> 0 ]
EmptyOffer == [supplierName |-> "", powerPricePerDay |-> 0, energyPricePerKwh |-> 0]

\* C25: a confirmed reset, from any state, leaves the zero-valued bill (every
\* field 0, billingPeriodDays 30), the empty offer, an empty list of saved
\* simulations, status IDLE and errorMsg null, whatever was loaded before; a
\* declined confirmation changes nothing.
C25_ResetFrame ==
  [][ /\ handleReset(TRUE) =>
           /\ billData' = ZeroBill
           /\ newOffer' = EmptyOffer
           /\ multiSimulations' = << >>
           /\ status' = IDLE
           /\ errorMsg' = NoError
      /\ handleReset(FALSE) => UNCHANGED vars ]_vars

C25_Witness ==
  /\ status = IDLE
  /\ billData = ZeroBill
  /\ newOffer = EmptyOffer
  /\ multiSimulations = << >>
  /\ errorMsg = NoError
  /\ batches # << >>

\* C26: removing the uploaded file leaves the zero-valued bill, status IDLE
\* and errorMsg null, and keeps newOffer and the saved simulations; the
\* comparison is then null and the ranking empty.
C26_ClearFileFrame ==
  [][ handleClearFile =>
        /\ billData' = ZeroBill
        /\ status' = IDLE
        /\ errorMsg' = NoError
        /\ newOffer' = newOffer
        /\ multiSimulations' = multiSimulations
        /\ comparison'.isNull
        /\ multiComparisonResults' = << >> ]_vars

C26_Witness ==
  /\ status = IDLE
  /\ billData = ZeroBill
  /\ newOffer # EmptyOffer
  /\ Len(multiSimulations) = 3
  /\ comparison.isNull
  /\ multiComparisonResults = << >>

----------------------------------------------------------------------------
(* Batch loads in flight together *)

\* calls of handleAddMultiSimulations in flight at one time
MaxBatches == 2

\* the files of these batches: two simulations and text JSON.parse rejects
ConcurrentFileContents == {JsonContent(SimCheaper), JsonContent(SimDearer), NotJson}

\* the file input stays usable while earlier batches are being read
AddConcurrentBatch ==
  /\ Len(batches) < MaxBatches
  /\ \E k \in 1..(MaxSims - Len(multiSimulations) - FilesInFlight(batches)) :
       \E files \in [1..k -> ConcurrentFileContents] :
         handleAddMultiSimulations(files)

\* the bill of these runs: one valid simulation is imported
SelectBillOfBatches ==
  \E file \in {f \in JsonFiles : /\ f.mimeType = "application/json"
                                  /\ f.content.parses
                                  /\ DOMAIN f.content.json =
                                       {"version", "timestamp", "billData", "newOffer"}
                                  /\ f.content.json.billData = ExampleBill} :
    handleFileSelectJson(file)

ReaderOnerror ==
  \E b \in DOMAIN batches : \E i \in DOMAIN batches[b].files : readerOnerror(b, i)

\* batches whose reads overlap, reads that fail, and removals meanwhile
NextBatch ==
  \/ SelectBillOfBatches
  \/ AddConcurrentBatch
  \/ ReaderOnload
  \/ ReaderOnerror
  \/ RemoveMultiSimulation

SpecBatch == Init /\ [][NextBatch]_vars

\* C27: once each of the N reads of a batch has finished, with the file
\* loaded, rejected or unreadable, the batch has committed: no batch whose
\* reads have all finished is still waiting.
C27_FinishedBatchCommitted ==
  \A b \in DOMAIN batches :
    batches[b].processed \cup batches[b].unread # DOMAIN batches[b].files

\* C28: with batch loads and removals in flight together no update is lost:
\* every change of the list either appends, after all it held, the valid
\* simulations of one batch, all of them and in one block, or removes one
\* simulation and keeps the others in their order.
C28_NoLostUpdate ==
  [][ multiSimulations' # multiSimulations =>
        LET old == Len(multiSimulations)
        IN \/ \E b \in DOMAIN batches : \E i \in DOMAIN batches[b].files :
                /\ readerOnload(b, i)
                /\ batches' = RemoveAt(batches, b)
                /\ Len(multiSimulations') = old + Cardinality(ValidFiles(batches[b].files))
                /\ SubSeq(multiSimulations', 1, old) = multiSimulations
                /\ \A j \in ValidFiles(batches[b].files) :
                     \E k \in (old + 1)..Len(multiSimulations') :
                       multiSimulations'[k].newOffer = batches[b].files[j].json.newOffer
           \/ /\ batches' = batches
              /\ \E index \in 0..(old - 1) :
                   multiSimulations' = RemoveAt(multiSimulations, index + 1) ]_vars

C28_Witness ==
  /\ Len(batches) = 2
  /\ Len(multiSimulations) = 1
  /\ billData.monthlyConsumptionKwh # 0
  /\ batches[1].processed = {}
  /\ batches[2].processed = {}
  /\ ValidFiles(batches[1].files) # {}
  /\ ValidFiles(batches[2].files) # {}

----------------------------------------------------------------------------
(* The extraction branch of handleFileSelect *)

\* extractions awaited at one time
MaxInFlight == 2

\* files FileUpload accepts that are not simulations: handleFileSelect hands
\* them to extractBillData
BillFiles ==
  { [mimeType |-> "application/pdf", startsWithEw |-> FALSE],
    [mimeType |-> "image/png", startsWithEw |-> FALSE] }

\* the response schema requires three fields only
RequiredOnlyBill ==
  [monthlyConsumptionKwh |-> 200, contractedPowerKva |-> 460, totalAmount |-> 550800]

\* what JSON.parse(response.text) gives
ExtractedBills == {ExampleBill, RequiredOnlyBill}

DefaultErrorMsg == "Nao foi possivel analisar o ficheiro. Por favor tente novamente."

\* err.message of what extractBillData throws: no text in the response, text
\* that JSON.parse rejects, a rejection of the service, an error without message
ExtractionErrors ==
  {"No data returned from Gemini", "Unexpected end of JSON input", "API key not valid", ""}

\* the required numeric fields of BillData and NewOfferData
RequiredBillFields ==
  {"monthlyConsumptionKwh", "contractedPowerKva", "audiovisualTax", "dgegTax",
   "ieceTax", "socialTariff", "totalAmount", "billingPeriodDays"}
RequiredOfferFields == {"powerPricePerDay", "energyPricePerKwh"}

\* documents that have billData and newOffer, one of them incomplete
IncompleteDocs ==
  { [version |-> "1.0", timestamp |-> "t",
     billData |-> [contractedPowerKva |-> 460, billingPeriodDays |-> 30],
     newOffer |-> [supplierName |-> "EDP", powerPricePerDay |-> 1500,
                   energyPricePerKwh |-> 0]],
    [version |-> "1.0", timestamp |-> "t",
     billData |-> ExampleBill,
     newOffer |-> [supplierName |-> "Galp"]] }

\* complete documents with a consumption and a unit price below zero
NegativeDocs ==
  { [version |-> "1.0", timestamp |-> "t",
     billData |-> [ExampleBill EXCEPT !.monthlyConsumptionKwh = -200],
     newOffer |-> [supplierName |-> "EDP", powerPricePerDay |-> 1500,
                   energyPricePerKwh |-> -1800]] }

\* the JSON files of a user: simulations, and documents of other shapes
ImportFiles ==
  JsonFiles
  \cup { [mimeType |-> "application/json", startsWithEw |-> TRUE,
          content |-> JsonContent(d)] : d \in IncompleteDocs \cup NegativeDocs }

\* up to the await: FileUpload is disabled while status = ANALYZING
handleFileSelectExtract(file) ==
  /\ status # ANALYZING
  /\ ~IsJsonFile(file)
  /\ Len(extractions) < MaxInFlight
  /\ status' = ANALYZING
  /\ errorMsg' = NoError
  /\ extractions' = Append(extractions, [mimeType |-> file.mimeType, abandoned |-> FALSE])
  /\ UNCHANGED <<billData, newOffer, multiSimulations, batches, download>>

\* after the await, extractBillData having returned data
extractBillDataResolves(e, data) ==
  /\ e \in DOMAIN extractions
  /\ billData' = data
  /\ status' = SUCCESS
  /\ extractions' = RemoveAt(extractions, e)
  /\ UNCHANGED <<errorMsg, newOffer, multiSimulations, batches, download>>

\* mutant: the catch block also drops the bill
extractBillDataRejects_ClearsBill(e, message) ==
  /\ e \in DOMAIN extractions
  /\ errorMsg' = IF message # "" THEN message ELSE DefaultErrorMsg
  /\ status' = ERROR
  /\ billData' = getInitialBillData
  /\ extractions' = RemoveAt(extractions, e)
  /\ UNCHANGED <<newOffer, multiSimulations, batches, download>>

\* the catch block, extractBillData having thrown
extractBillDataRejects(e, message) ==
  /\ e \in DOMAIN extractions
  /\ errorMsg' = IF message # "" THEN message ELSE DefaultErrorMsg
  /\ status' = ERROR
  /\ extractions' = RemoveAt(extractions, e)
  /\ UNCHANGED <<billData, newOffer, multiSimulations, batches, download>>

SelectImportFile == \E file \in ImportFiles : handleFileSelectJson(file)

SelectBillFile == \E file \in BillFiles : handleFileSelectExtract(file)

ExtractionResolves ==
  \E e \in DOMAIN extractions : \E data \in ExtractedBills : extractBillDataResolves(e, data)

ExtractionRejects ==
  \E e \in DOMAIN extractions : \E message \in ExtractionErrors :
    extractBillDataRejects(e, message)

\* the file upload: imports, extractions and their completions, clear, reset
NextExtract ==
  \/ SelectImportFile
  \/ SelectBillFile
  \/ ExtractionResolves
  \/ ExtractionRejects
  \/ ClearFile
  \/ Reset

SpecExtract == Init /\ [][NextExtract]_vars

----------------------------------------------------------------------------
(* Properties of the file upload *)

\* C18: when the extraction fails (no data, unparsable data, rejection),
\* handleFileSelect ends with status ERROR and a non-empty error message, and
\* neither of its two steps writes billData or newOffer.
C18_ExtractionFailure ==
  [][ /\ \A file \in BillFiles :
           handleFileSelectExtract(file) =>
             /\ status' = ANALYZING
             /\ UNCHANGED <<billData, newOffer>>
      /\ \A e \in DOMAIN extractions : \A message \in ExtractionErrors :
           extractBillDataRejects(e, message) =>
             /\ status' = ERROR
             /\ errorMsg' \notin {NoError, ""}
             /\ UNCHANGED <<billData, newOffer>> ]_vars

C18_Witness ==
  /\ status = ERROR
  /\ errorMsg = "No data returned from Gemini"
  /\ billData = ExampleBill
  /\ newOffer.supplierName = "EDP"
  /\ extractions = << >>

MissingRequired(doc) ==
  \/ "billData" \notin DOMAIN doc
  \/ "newOffer" \notin DOMAIN doc
  \/ ~(RequiredBillFields \subseteq DOMAIN doc.billData)
  \/ ~(RequiredOfferFields \subseteq DOMAIN doc.newOffer)

\* C19: the import of a simulation document that lacks billData or newOffer,
\* or a required numeric field inside one of them, fails with status ERROR
\* and a message, and leaves billData and newOffer unchanged.
C19_IncompleteImportFails ==
  [][ \A file \in ImportFiles :
        ( /\ handleFileSelectJson(file)
          /\ file.content.parses
          /\ MissingRequired(file.content.json) ) =>
          /\ status' = ERROR
          /\ errorMsg' \notin {NoError, ""}
          /\ UNCHANGED <<billData, newOffer>> ]_vars

\* C20: the completion, success or failure, of an extraction that was in
\* flight when the user reset or cleared changes neither billData nor status
\* nor errorMsg.
C20_AbandonedResultIgnored ==
  [][ \A e \in DOMAIN extractions :
        ( /\ extractions[e].abandoned
          /\ \/ \E data \in ExtractedBills : extractBillDataResolves(e, data)
             \/ \E message \in ExtractionErrors : extractBillDataRejects(e, message) ) =>
          UNCHANGED <<billData, status, errorMsg>> ]_vars

\* C23: in every reachable state every numeric value of billData and of
\* newOffer is non-negative, except billData.socialTariff.
C23_NonNegative ==
  /\ \A f \in DOMAIN billData \ {"socialTariff"} : billData[f] >= 0
  /\ \A f \in DOMAIN newOffer \ {"supplierName"} : newOffer[f] >= 0

\* C24: the BillData installed by a successful extraction has the required
\* fields (consumption, power, total), 0 for every tax the answer lacks and
\* 30 for a missing billing period: every field the calculation uses is a
\* defined number.
C24_ExtractionDefaults ==
  [][ \A e \in DOMAIN extractions : \A data \in ExtractedBills :
        extractBillDataResolves(e, data) =>
          /\ RequiredBillFields \subseteq DOMAIN billData'
          /\ \A f \in {"audiovisualTax", "dgegTax", "ieceTax", "socialTariff"} :
               f \notin DOMAIN data => billData'[f] = 0
          /\ "billingPeriodDays" \notin DOMAIN data =>
               billData'.billingPeriodDays = DefaultBillingDays ]_vars

\* C29: in every reachable state of the upload, errorMsg is non-null exactly
\* when status is ERROR.
C29_ErrorMsgIffError == (errorMsg # NoError) <=> (status = ERROR)

----------------------------------------------------------------------------
(* Saving a simulation and importing the saved file *)

\* the UTF-16 code units of the supplier names that occur
codeUnits(name) ==
  CASE name = "" -> << >>
    [] name = "EDP" -> <<69, 68, 80>>
    [] name = "Luzigás" -> <<76, 117, 122, 105, 103, 225, 115>>
    [] name = "LuzigÃ¡s" -> <<76, 117, 122, 105, 103, 195, 161, 115>>
    [] OTHER -> <<63>>

KnownNames == {"", "EDP", "Luzigás", "LuzigÃ¡s"}

\* the string with the given code units
stringOf(units) ==
  IF \E name \in KnownNames : codeUnits(name) = units
    THEN CHOOSE name \in KnownNames : codeUnits(name) = units
    ELSE "?"

\* Blob([text]): the UTF-8 bytes of the text (code units below 0x800)
RECURSIVE encodeUtf8(_)
encodeUtf8(units) ==
  IF units = << >> THEN << >>
  ELSE LET u == Head(units)
       IN (IF u < 128 THEN <<u>> ELSE <<192 + (u \div 64), 128 + (u % 64)>>)
            \o encodeUtf8(Tail(units))

\* what a UTF-8 decoder reads from the bytes
RECURSIVE decodeUtf8(_)
decodeUtf8(bytes) ==
  IF bytes = << >> THEN << >>
  ELSE IF Head(bytes) < 128 \/ Len(bytes) = 1
         THEN <<Head(bytes)>> \o decodeUtf8(Tail(bytes))
         ELSE <<(Head(bytes) - 192) * 64 + (bytes[2] - 128)>>
                \o decodeUtf8(Tail(Tail(bytes)))

\* reader.readAsDataURL: base64, as sextets 0..63 with 64 for the padding "="
RECURSIVE readAsDataURL(_)
readAsDataURL(bytes) ==
  CASE Len(bytes) = 0 -> << >>
    [] Len(bytes) = 1 ->
         <<bytes[1] \div 4, (bytes[1] % 4) * 16, 64, 64>>
    [] Len(bytes) = 2 ->
         <<bytes[1] \div 4, (bytes[1] % 4) * 16 + (bytes[2] \div 16),
           (bytes[2] % 16) * 4, 64>>
    [] OTHER ->
         <<bytes[1] \div 4, (bytes[1] % 4) * 16 + (bytes[2] \div 16),
           (bytes[2] % 16) * 4 + (bytes[3] \div 64), bytes[3] % 64>>
           \o readAsDataURL(SubSeq(bytes, 4, Len(bytes)))

\* atob: a string with one character per byte of the base64 text
RECURSIVE atob(_)
atob(base64) ==
  IF base64 = << >> THEN << >>
  ELSE LET a == base64[1]
           b == base64[2]
           c == base64[3]
           d == base64[4]
           first == <<a * 4 + (b \div 16)>>
           second == IF c = 64 THEN << >> ELSE <<(b % 16) * 16 + (c \div 4)>>
           third == IF d = 64 THEN << >> ELSE <<(c % 4) * 64 + d>>
       IN first \o second \o third \o atob(SubSeq(base64, 5, Len(base64)))

\* the decimal digits of a natural number
RECURSIVE digits(_)
digits(n) == IF n < 10 THEN <<48 + n>> ELSE digits(n \div 10) \o <<48 + (n % 10)>>

\* the digits after the point of part / scale, without trailing zeros
RECURSIVE fractionDigits(_, _)
fractionDigits(part, scale) ==
  IF part = 0 THEN << >>
  ELSE <<48 + (part \div (scale \div 10))>>
         \o fractionDigits(part % (scale \div 10), scale \div 10)

\* JSON.stringify of the number n / scale
stringifyNumber(n, scale) ==
  LET a == IF n < 0 THEN 0 - n ELSE n
  IN (IF n < 0 THEN <<45>> ELSE << >>)
       \o digits(a \div scale)
       \o (IF a % scale = 0 THEN << >> ELSE <<46>> \o fractionDigits(a % scale, scale))

RECURSIVE digitsValue(_)
digitsValue(text) ==
  IF text = << >> THEN 0
  ELSE digitsValue(SubSeq(text, 1, Len(text) - 1)) * 10 + (text[Len(text)] - 48)

RECURSIVE fractionValue(_, _)
fractionValue(text, scale) ==
  IF text = << >> THEN 0
  ELSE (Head(text) - 48) * (scale \div 10) + fractionValue(Tail(text), scale \div 10)

\* JSON.parse of the text of a number, in units of 1 / scale
parseNumber(text, scale) ==
  LET negative == text # << >> /\ Head(text) = 45
      unsigned == IF negative THEN Tail(text) ELSE text
      points == {i \in DOMAIN unsigned : unsigned[i] = 46}
      point == IF points = {} THEN Len(unsigned) + 1 ELSE CHOOSE i \in points : TRUE
      value == digitsValue(SubSeq(unsigned, 1, point - 1)) * scale
                 + fractionValue(SubSeq(unsigned, point + 1, Len(unsigned)), scale)
  IN IF negative THEN 0 - value ELSE value

\* the unit in which the model holds each numeric field
FieldScale(field) ==
  CASE field \in {"monthlyConsumptionKwh", "billingPeriodDays"} -> 1
    [] field = "contractedPowerKva" -> 100
    [] OTHER -> 10000

\* JSON.stringify(saveData, null, 2) in a Blob: the bytes of each value
Blob(saveData) ==
  [ version |-> "1.0",
    timestamp |-> saveData.timestamp,
    billData |->
      [ f \in DOMAIN saveData.billData |->
          encodeUtf8(stringifyNumber(saveData.billData[f], FieldScale(f))) ],
    newOffer |->
      [ f \in DOMAIN saveData.newOffer |->
          IF f = "supplierName"
            THEN encodeUtf8(codeUnits(saveData.newOffer[f]))
            ELSE encodeUtf8(stringifyNumber(saveData.newOffer[f], FieldScale(f))) ] ]

\* FileUpload.handleFile then handleFileSelect: base64 of the bytes, then atob
binaryString(bytes) == atob(readAsDataURL(bytes))

\* the characters read from the bytes: one per byte, or UTF-8 decoded
characters(bytes, encoding) ==
  IF encoding = "binary" THEN binaryString(bytes) ELSE decodeUtf8(bytes)

\* JSON.parse of the file's text, given how its bytes were made characters
parseBlob(blob, encoding) ==
  [ version |-> blob.version,
    timestamp |-> blob.timestamp,
    billData |->
      [ f \in DOMAIN blob.billData |->
          parseNumber(characters(blob.billData[f], encoding), FieldScale(f)) ],
    newOffer |->
      [ f \in DOMAIN blob.newOffer |->
          IF f = "supplierName"
            THEN stringOf(characters(blob.newOffer[f], encoding))
            ELSE parseNumber(characters(blob.newOffer[f], encoding), FieldScale(f)) ] ]

\* the saved file as FileUpload hands it over; its text starts with "{" and a
\* line feed, whose base64 starts with "ew"
uploadOf(file) ==
  [ mimeType |-> "application/json",
    startsWithEw |-> SubSeq(readAsDataURL(<<123, 10, 32>>), 1, 2) = <<30, 48>>,
    content |-> JsonContent(parseBlob(file.blob, "binary")) ]

\* the save button is rendered with the comparison
handleSaveSimulation ==
  /\ ~comparison.isNull
  /\ LET saveData == [version |-> "1.0", timestamp |-> "now",
                      billData |-> billData, newOffer |-> newOffer]
     IN download' = [saved |-> TRUE, blob |-> Blob(saveData)]
  /\ UNCHANGED <<status, errorMsg, billData, newOffer, multiSimulations,
                 extractions, batches>>

\* supplier names typed into the offer form
TypedNames == {"EDP", "Luzigás"}

EditSupplierName == \E name \in TypedNames : handleOfferChange("supplierName", name)

EditOfferPrice ==
  \E field \in DOMAIN OfferFieldValues :
    \E value \in Texts(OfferFieldValues[field]) : handleOfferChange(field, value)

SaveSimulation == handleSaveSimulation

SelectDownload == download.saved /\ handleFileSelectJson(uploadOf(download))

\* save and import: the offer is typed, a bill is imported, the simulation is
\* saved and the saved file is selected again
NextSave ==
  \/ EditSupplierName
  \/ EditOfferPrice
  \/ SelectJsonFile
  \/ SaveSimulation
  \/ SelectDownload
  \/ ClearFile
  \/ Reset

SpecSave == Init /\ [][NextSave]_vars

\* C22: saving the current simulation and importing the saved file yields
\* billData and newOffer field-for-field equal to the ones saved, and status
\* SUCCESS.
C22_SaveImportRoundTrip ==
  [][ /\ handleSaveSimulation =>
           LET written == parseBlob(download'.blob, "utf-8")
           IN written.billData = billData /\ written.newOffer = newOffer
      /\ (download.saved /\ handleFileSelectJson(uploadOf(download))) =>
           LET written == parseBlob(download.blob, "utf-8")
           IN /\ status' = SUCCESS
              /\ billData' = written.billData
              /\ newOffer' = written.newOffer ]_vars

====
